---- MODULE Spec2Model ----
(***************************************************************************)
(* Model of the PCF85063A real-time-clock driver                           *)
(* (src/drivers/counter/pcf85063a.c, with its header appended at line 434).*)
(*                                                                         *)
(* The driver keeps no state of its own: the state is the peripheral's     *)
(* register file.  Every driver function is one action; it is built from   *)
(* the I2C primitives, which thread a bus state [regs, log, ret] so that   *)
(* the registers and the list of transactions issued by a call are         *)
(* produced by the same step.                                              *)
(***************************************************************************)
EXTENDS Integers, Sequences, FiniteSets, TLC

VARIABLES
    regs,     \* the peripheral's registers: address -> byte
    tm,       \* the struct tm the caller passes to set_time and get_time
    lastSet,  \* the struct tm the last successful set_time wrote, if any
    op,       \* the driver function that has just returned ("none": no call
              \* has returned since the caller last took up its results)
    arg,      \* its integer argument (0 when it has none)
    ret,      \* its return value (get_pending_int: a uint32_t)
    log,      \* the bus transactions it issued, in order
    pre,      \* the registers as they were at its entry
    tmPre,    \* the caller's struct tm as it was at its entry
    run,      \* per caller, the alarm call it is in, transaction by
              \* transaction (used where calls are not taken as one step)
    tfSrc     \* which countdown raised the timer flag now set ("none": clear)

vars == <<regs, tm, lastSet, op, arg, ret, log, pre, tmPre, run, tfSrc>>

(***************************************************************************)
(* Register map and bit masks (the #defines of the header).                *)
(***************************************************************************)
PCF85063A_BCD_UPPER_SHIFT == 4
PCF85063A_BCD_LOWER_MASK == 15
PCF85063A_BCD_UPPER_MASK == 240
PCF85063A_BCD_UPPER_MASK_SEC == 112

PCF85063A_CTRL1 == 0
PCF85063A_CTRL1_STOP == 32
PCF85063A_CTRL1_CAP_SEL == 1

PCF85063A_CTRL2 == 1
PCF85063A_CTRL2_TF == 8

PCF85063A_OFFSET == 2
PCF85063A_OFFSET_MODE == 128
PCF85063A_OFFSET_VALUE_MASK == 127
PCF85063A_OFFSET_MODE_NORMAL == 0
PCF85063A_OFFSET_MODE_COURSE == 1

PCF85063A_SECONDS == 4
PCF85063A_SECONDS_OS == 128
PCF85063A_SECONDS_MASK == 127
PCF85063A_MINUTES_MASK == 127
PCF85063A_HOURS_MASK == 63
PCF85063A_DAYS_MASK == 63
PCF85063A_WEEKDAYS_MASK == 7
PCF85063A_MONTHS_MASK == 31

PCF85063A_TIMER_VALUE == 16
PCF85063A_TIMER_MODE == 17
PCF85063A_TIMER_MODE_FREQ_MASK == 24
PCF85063A_TIMER_MODE_FREQ_SHIFT == 3
PCF85063A_TIMER_MODE_FREQ_1 == 2
PCF85063A_TIMER_MODE_EN == 4
PCF85063A_TIMER_MODE_INT_EN == 2
PCF85063A_TIMER_MODE_INT_TI_TP == 1

\* errno values the driver returns negated
EIO == 5
EINVAL == 22

\* sizeof(raw_time)
RAW_TIME_LEN == 7

\* the registers the driver addresses
RegAddrs == {PCF85063A_CTRL1, PCF85063A_CTRL2, PCF85063A_OFFSET}
            \cup (PCF85063A_SECONDS .. (PCF85063A_SECONDS + RAW_TIME_LEN - 1))
            \cup {PCF85063A_TIMER_VALUE, PCF85063A_TIMER_MODE}

(***************************************************************************)
(* C arithmetic on the widths the driver uses.                             *)
(***************************************************************************)
Pow2(n) == 2 ^ n

U8(x) == x % 256

\* (uint32_t)x as its two 16-bit halves
U32(x) == [hi |-> ((x - (x % 65536)) \div 65536) % 65536, lo |-> x % 65536]

\* the low 31 bits of an int in two's complement
Low31(x) == IF x >= 0 THEN x ELSE (x + 2147483647) + 1

\* C's / and % truncate toward zero
CDiv(a, b) == IF a >= 0 THEN a \div b ELSE -((-a) \div b)

CMod(a, b) == a - b * CDiv(a, b)

RECURSIVE BitAndNat(_, _)
BitAndNat(a, b) ==
    IF a = 0 \/ b = 0 THEN 0
    ELSE (a % 2) * (b % 2) + 2 * BitAndNat(a \div 2, b \div 2)

\* a & b on int operands, one of which is a non-negative mask: the result
\* has no bit above the mask's, so the low 31 bits of each decide it
BitAnd(a, b) == BitAndNat(Low31(a), Low31(b))

\* a | b on non-negative operands
BitOr(a, b) == a + b - BitAndNat(a, b)

\* (uint8_t)~a
BitNot8(a) == 255 - U8(a)

Shl(a, n) == a * Pow2(n)

Shr(a, n) == a \div Pow2(n)

(***************************************************************************)
(* struct tm.                                                              *)
(***************************************************************************)
TmFields == {"tm_sec", "tm_min", "tm_hour", "tm_mday", "tm_mon", "tm_year",
             "tm_wday", "tm_yday", "tm_isdst"}

\* a struct tm no call has written: every field holds a marker value
NoTm == [f \in TmFields |-> -1]

(***************************************************************************)
(* Day of year.                                                            *)
(***************************************************************************)
\* yisleap without the 400-year rule
yisleap_no_400(year) ==
    IF CMod(year, 4) = 0 /\ CMod(year, 100) # 0 THEN 1 ELSE 0

yisleap(year) ==
    IF (CMod(year, 4) = 0 /\ CMod(year, 100) # 0) \/ CMod(year, 400) = 0
    THEN 1 ELSE 0

\* static const int days[2][12], rows and columns 0-based
days == << <<0, 31, 59, 90, 120, 151, 181, 212, 243, 273, 304, 334>>,
           <<0, 31, 60, 91, 121, 152, 182, 213, 244, 274, 305, 335>> >>

\* days[leap][mon] + day - 1.  The table has 12 columns and mon is not
\* checked: a read with mon outside 0..11 is out of bounds, and `oob` is the
\* value such a read produces.
get_yday(mon, day, year, oob) ==
    LET leap == yisleap(year)
        cell == IF mon \in 0..11 THEN days[leap + 1][mon + 1] ELSE oob
    IN  cell + day - 1

(***************************************************************************)
(* The I2C primitives the driver calls.  A bus state b is                  *)
(* [regs, log, ret]: the registers, the transactions issued so far by the  *)
(* running call, and the status of the last one.  A failure plan fp is     *)
(* [at, err]: transaction number `at` of the call fails with status `err`  *)
(* and has no effect on the registers (at = 0: none fails).                *)
(***************************************************************************)
Bus(r) == [regs |-> r, log |-> <<>>, ret |-> 0]

Fails(b, fp) == Len(b.log) + 1 = fp.at

\* a logged transaction; status is 0 or the failure's status
Txn(kind, reg, mask, val, status) ==
    [kind |-> kind, reg |-> reg, mask |-> mask, val |-> val, status |-> status]

Status(b, fp) == IF Fails(b, fp) THEN fp.err ELSE 0

\* read one register; the value read is b.regs[reg] when ret = 0
i2c_reg_read_byte_dt(b, fp, reg) ==
    LET ok == ~Fails(b, fp)
    IN  [regs |-> b.regs,
         log  |-> Append(b.log, Txn("read", reg, 0, 0, Status(b, fp))),
         ret  |-> IF ok THEN 0 ELSE fp.err]

\* write one register
i2c_reg_write_byte_dt(b, fp, reg, val) ==
    LET ok == ~Fails(b, fp)
    IN  [regs |-> IF ok THEN [b.regs EXCEPT ![reg] = U8(val)] ELSE b.regs,
         log  |-> Append(b.log, Txn("write", reg, 255, U8(val), Status(b, fp))),
         ret  |-> IF ok THEN 0 ELSE fp.err]

\* masked read-modify-write: (old & ~mask) | (val & mask)
i2c_reg_update_byte_dt(b, fp, reg, mask, val) ==
    LET ok == ~Fails(b, fp)
        new == BitOr(BitAnd(b.regs[reg], BitNot8(mask)), BitAnd(U8(val), U8(mask)))
    IN  [regs |-> IF ok THEN [b.regs EXCEPT ![reg] = new] ELSE b.regs,
         log  |-> Append(b.log, Txn("update", reg, U8(mask), U8(val), Status(b, fp))),
         ret  |-> IF ok THEN 0 ELSE fp.err]

\* read n registers from `start`; the bytes read are b.regs[start + i]
i2c_burst_read_dt(b, fp, start, n) ==
    LET ok == ~Fails(b, fp)
    IN  [regs |-> b.regs,
         log  |-> Append(b.log, Txn("burst_read", start, 0, n, Status(b, fp))),
         ret  |-> IF ok THEN 0 ELSE fp.err]

\* write the bytes of buf to the registers from `start`
i2c_burst_write_dt(b, fp, start, buf) ==
    LET ok == ~Fails(b, fp)
        n  == Len(buf)
    IN  [regs |-> IF ok
                  THEN [a \in RegAddrs |->
                          IF a \in start .. (start + n - 1)
                          THEN buf[a - start + 1] ELSE b.regs[a]]
                  ELSE b.regs,
         log  |-> Append(b.log, Txn("burst_write", start, 255, n, Status(b, fp))),
         ret  |-> IF ok THEN 0 ELSE fp.err]

(***************************************************************************)
(* The driver's functions.  Each takes the bus state at entry and the      *)
(* failure plan of the call and yields the bus state at return, with ret   *)
(* the function's return value.                                            *)
(***************************************************************************)
pcf85063a_set_offset_mode(b, fp, offset_mode_value) ==
    LET mask == PCF85063A_OFFSET_MODE
        b1 == i2c_reg_update_byte_dt(b, fp, PCF85063A_OFFSET, mask, offset_mode_value)
    IN  IF b1.ret # 0 THEN b1 ELSE [b1 EXCEPT !.ret = 0]

\* set_offset_value that writes the whole of the offset register
pcf85063a_set_offset_value_whole(b, fp, offset_value) ==
    LET b1 == i2c_reg_update_byte_dt(b, fp, PCF85063A_OFFSET, 255, offset_value)
    IN  IF b1.ret # 0 THEN b1 ELSE [b1 EXCEPT !.ret = 0]

pcf85063a_set_offset_value(b, fp, offset_value) ==
    LET mask == PCF85063A_OFFSET_VALUE_MASK
        b1 == i2c_reg_update_byte_dt(b, fp, PCF85063A_OFFSET, mask, offset_value)
    IN  IF b1.ret # 0 THEN b1 ELSE [b1 EXCEPT !.ret = 0]

pcf85063a_set_cap_sel(b, fp, cap_value) ==
    LET mask == PCF85063A_CTRL1_CAP_SEL
        b1 == i2c_reg_update_byte_dt(b, fp, PCF85063A_CTRL1, mask, cap_value)
    IN  IF b1.ret # 0 THEN b1 ELSE [b1 EXCEPT !.ret = 0]

\* packing that splits the value at 16 instead of 10 (plain binary)
bcd_pack_binary(v) == Shl(CDiv(v, 16), PCF85063A_BCD_UPPER_SHIFT) + CMod(v, 16)

\* two-digit BCD packing as set_time writes it: ((v / 10) << 4) + (v % 10)
bcd_pack(v) == Shl(CDiv(v, 10), PCF85063A_BCD_UPPER_SHIFT) + CMod(v, 10)

\* the 7 bytes built without the field masks
set_time_raw_unmasked(time) ==
    LET year == U8(CMod(time.tm_year, 100))
    IN  << U8(bcd_pack(time.tm_sec)),
           U8(bcd_pack(time.tm_min)),
           U8(bcd_pack(time.tm_hour)),
           U8(bcd_pack(time.tm_mday)),
           U8(time.tm_wday),
           U8(bcd_pack(time.tm_mon)),
           U8(Shl(year \div 10, PCF85063A_BCD_UPPER_SHIFT) + (year % 10)) >>

\* the 7 bytes set_time builds from *time
set_time_raw(time) ==
    LET year == U8(CMod(time.tm_year, 100))
    IN  << U8(BitAnd(PCF85063A_SECONDS_MASK, bcd_pack(time.tm_sec))),
           U8(BitAnd(PCF85063A_MINUTES_MASK, bcd_pack(time.tm_min))),
           U8(BitAnd(PCF85063A_HOURS_MASK, bcd_pack(time.tm_hour))),
           U8(BitAnd(PCF85063A_DAYS_MASK, bcd_pack(time.tm_mday))),
           U8(BitAnd(PCF85063A_WEEKDAYS_MASK, time.tm_wday)),
           U8(BitAnd(PCF85063A_MONTHS_MASK, bcd_pack(time.tm_mon))),
           U8(Shl(year \div 10, PCF85063A_BCD_UPPER_SHIFT) + (year % 10)) >>

pcf85063a_set_time(b, fp, time) ==
    LET raw_time == set_time_raw(time)
        b1 == i2c_burst_write_dt(b, fp, PCF85063A_SECONDS, raw_time)
    IN  IF b1.ret # 0 THEN b1 ELSE [b1 EXCEPT !.ret = 0]

\* BCD unpacking as get_time reads it: (raw & lower) + (((raw & upper) >> 4) * 10)
bcd_unpack(raw, upper) ==
    BitAnd(raw, PCF85063A_BCD_LOWER_MASK)
    + Shr(BitAnd(raw, upper), PCF85063A_BCD_UPPER_SHIFT) * 10

\* the struct tm get_time fills in from the 7 bytes read
get_time_decode(raw_time, oob) ==
    LET sec  == bcd_unpack(raw_time[1], PCF85063A_BCD_UPPER_MASK_SEC)
        min  == bcd_unpack(raw_time[2], PCF85063A_BCD_UPPER_MASK)
        hour == bcd_unpack(raw_time[3], PCF85063A_BCD_UPPER_MASK)
        mday == bcd_unpack(raw_time[4], PCF85063A_BCD_UPPER_MASK)
        wday == bcd_unpack(raw_time[5], PCF85063A_BCD_UPPER_MASK)
        mon  == bcd_unpack(raw_time[6], PCF85063A_BCD_UPPER_MASK)
        year == bcd_unpack(raw_time[7], PCF85063A_BCD_UPPER_MASK) + 100
    IN  [tm_sec |-> sec, tm_min |-> min, tm_hour |-> hour, tm_mday |-> mday,
         tm_wday |-> wday, tm_mon |-> mon, tm_year |-> year,
         tm_yday |-> get_yday(mon, mday, year + 1900, oob),
         tm_isdst |-> 0]

\* get_time that decodes into *time before it tests the oscillator-stop flag
pcf85063a_get_time_decode_first(b, fp, time, oob) ==
    LET b1 == i2c_burst_read_dt(b, fp, PCF85063A_SECONDS, RAW_TIME_LEN)
        raw_time == [i \in 1..RAW_TIME_LEN |-> b1.regs[PCF85063A_SECONDS + i - 1]]
    IN  IF b1.ret # 0
        THEN [bus |-> b1, time |-> time]
        ELSE IF BitAnd(raw_time[1], PCF85063A_SECONDS_OS) # 0
        THEN [bus |-> [b1 EXCEPT !.ret = -EIO], time |-> get_time_decode(raw_time, oob)]
        ELSE [bus |-> [b1 EXCEPT !.ret = 0], time |-> get_time_decode(raw_time, oob)]

\* yields the bus state and, as `time`, the caller's struct tm at return
pcf85063a_get_time(b, fp, time, oob) ==
    LET b1 == i2c_burst_read_dt(b, fp, PCF85063A_SECONDS, RAW_TIME_LEN)
        raw_time == [i \in 1..RAW_TIME_LEN |-> b1.regs[PCF85063A_SECONDS + i - 1]]
    IN  IF b1.ret # 0
        THEN [bus |-> b1, time |-> time]
        ELSE IF BitAnd(raw_time[1], PCF85063A_SECONDS_OS) # 0
        THEN [bus |-> [b1 EXCEPT !.ret = -EIO], time |-> time]
        ELSE [bus |-> [b1 EXCEPT !.ret = 0], time |-> get_time_decode(raw_time, oob)]

pcf85063a_start(b, fp) ==
    LET reg == 0
        mask == PCF85063A_CTRL1_STOP
        b1 == i2c_reg_update_byte_dt(b, fp, PCF85063A_CTRL1, mask, reg)
    IN  IF b1.ret # 0 THEN b1 ELSE [b1 EXCEPT !.ret = 0]

\* stop that writes the whole register instead of the STOP bit
pcf85063a_stop_plain_write(b, fp) ==
    LET reg == PCF85063A_CTRL1_STOP
        b1 == i2c_reg_write_byte_dt(b, fp, PCF85063A_CTRL1, reg)
    IN  IF b1.ret # 0 THEN b1 ELSE [b1 EXCEPT !.ret = 0]

pcf85063a_stop(b, fp) ==
    LET reg == PCF85063A_CTRL1_STOP
        mask == PCF85063A_CTRL1_STOP
        b1 == i2c_reg_update_byte_dt(b, fp, PCF85063A_CTRL1, mask, reg)
    IN  IF b1.ret # 0 THEN b1 ELSE [b1 EXCEPT !.ret = 0]

\* set_alarm that clears the timer flag after arming instead of before
pcf85063a_set_alarm_clear_last(b, fp, alarm_ticks) ==
    LET ticks == U8(alarm_ticks)
        b1 == i2c_reg_write_byte_dt(b, fp, PCF85063A_TIMER_VALUE, ticks)
        reg == BitOr(BitOr(Shl(PCF85063A_TIMER_MODE_FREQ_1, PCF85063A_TIMER_MODE_FREQ_SHIFT),
                           PCF85063A_TIMER_MODE_EN),
                     PCF85063A_TIMER_MODE_INT_EN)
        mask == BitOr(BitOr(PCF85063A_TIMER_MODE_FREQ_MASK, PCF85063A_TIMER_MODE_EN),
                      PCF85063A_TIMER_MODE_INT_EN)
        b2 == i2c_reg_update_byte_dt(b1, fp, PCF85063A_TIMER_MODE, mask, reg)
        b3 == i2c_reg_update_byte_dt(b2, fp, PCF85063A_CTRL2, PCF85063A_CTRL2_TF, 0)
    IN  IF b1.ret # 0 THEN b1
        ELSE IF b2.ret # 0 THEN b2
        ELSE IF b3.ret # 0 THEN b3
        ELSE [b3 EXCEPT !.ret = 0]

\* the number of bus transactions of set_alarm
set_alarm_len == 3

\* set_alarm whose last transaction enables the timer but not its interrupt
set_alarm_txn_no_int(k, b, fp, alarm_ticks) ==
    LET ticks == U8(alarm_ticks)
        reg == BitOr(Shl(PCF85063A_TIMER_MODE_FREQ_1, PCF85063A_TIMER_MODE_FREQ_SHIFT),
                     PCF85063A_TIMER_MODE_EN)
        mask == BitOr(PCF85063A_TIMER_MODE_FREQ_MASK, PCF85063A_TIMER_MODE_EN)
    IN  CASE k = 1 -> i2c_reg_update_byte_dt(b, fp, PCF85063A_CTRL2, PCF85063A_CTRL2_TF, 0)
          [] k = 2 -> i2c_reg_write_byte_dt(b, fp, PCF85063A_TIMER_VALUE, ticks)
          [] k = 3 -> i2c_reg_update_byte_dt(b, fp, PCF85063A_TIMER_MODE, mask, reg)

\* transaction k of set_alarm, issued on bus state b.
\* alarm_ticks is alarm_cfg->ticks, a uint32_t
set_alarm_txn(k, b, fp, alarm_ticks) ==
    LET ticks == U8(alarm_ticks)
        reg == BitOr(BitOr(Shl(PCF85063A_TIMER_MODE_FREQ_1, PCF85063A_TIMER_MODE_FREQ_SHIFT),
                           PCF85063A_TIMER_MODE_EN),
                     PCF85063A_TIMER_MODE_INT_EN)
        mask == BitOr(BitOr(PCF85063A_TIMER_MODE_FREQ_MASK, PCF85063A_TIMER_MODE_EN),
                      PCF85063A_TIMER_MODE_INT_EN)
    IN  CASE k = 1 -> i2c_reg_update_byte_dt(b, fp, PCF85063A_CTRL2, PCF85063A_CTRL2_TF, 0)
          [] k = 2 -> i2c_reg_write_byte_dt(b, fp, PCF85063A_TIMER_VALUE, ticks)
          [] k = 3 -> i2c_reg_update_byte_dt(b, fp, PCF85063A_TIMER_MODE, mask, reg)

\* set_alarm that refuses a tick count above the 8-bit counter's top value
pcf85063a_set_alarm_range_check(b, fp, alarm_ticks) ==
    LET b1 == set_alarm_txn(1, b, fp, alarm_ticks)
        b2 == set_alarm_txn(2, b1, fp, alarm_ticks)
        b3 == set_alarm_txn(3, b2, fp, alarm_ticks)
    IN  IF alarm_ticks > 255 THEN [b EXCEPT !.ret = -EINVAL]
        ELSE IF b1.ret # 0 THEN b1
        ELSE IF b2.ret # 0 THEN b2
        ELSE IF b3.ret # 0 THEN b3
        ELSE [b3 EXCEPT !.ret = 0]

pcf85063a_set_alarm(b, fp, alarm_ticks) ==
    LET b1 == set_alarm_txn(1, b, fp, alarm_ticks)
        b2 == set_alarm_txn(2, b1, fp, alarm_ticks)
        b3 == set_alarm_txn(3, b2, fp, alarm_ticks)
    IN  IF b1.ret # 0 THEN b1
        ELSE IF b2.ret # 0 THEN b2
        ELSE IF b3.ret # 0 THEN b3
        ELSE [b3 EXCEPT !.ret = 0]

\* cancel_alarm that goes on to the timer-mode write when the flag clear failed
pcf85063a_cancel_alarm_no_check(b, fp) ==
    LET b1 == i2c_reg_update_byte_dt(b, fp, PCF85063A_CTRL2, PCF85063A_CTRL2_TF, 0)
        mask == BitOr(BitOr(PCF85063A_TIMER_MODE_EN, PCF85063A_TIMER_MODE_INT_EN),
                      PCF85063A_TIMER_MODE_INT_TI_TP)
        b2 == i2c_reg_update_byte_dt(b1, fp, PCF85063A_TIMER_MODE, mask, 0)
    IN  IF b2.ret # 0 THEN b2
        ELSE [b2 EXCEPT !.ret = 0]

\* cancel_alarm whose timer-mode mask also covers the frequency bits
pcf85063a_cancel_alarm_clear_freq(b, fp) ==
    LET b1 == i2c_reg_update_byte_dt(b, fp, PCF85063A_CTRL2, PCF85063A_CTRL2_TF, 0)
        mask == BitOr(BitOr(BitOr(PCF85063A_TIMER_MODE_EN, PCF85063A_TIMER_MODE_INT_EN),
                            PCF85063A_TIMER_MODE_INT_TI_TP),
                      PCF85063A_TIMER_MODE_FREQ_MASK)
        b2 == i2c_reg_update_byte_dt(b1, fp, PCF85063A_TIMER_MODE, mask, 0)
    IN  IF b1.ret # 0 THEN b1
        ELSE IF b2.ret # 0 THEN b2
        ELSE [b2 EXCEPT !.ret = 0]

\* the number of bus transactions of cancel_alarm
cancel_alarm_len == 2

\* cancel_alarm whose first transaction zeroes the timer value
cancel_alarm_txn_reset_value(k, b, fp) ==
    LET mask == BitOr(BitOr(PCF85063A_TIMER_MODE_EN, PCF85063A_TIMER_MODE_INT_EN),
                      PCF85063A_TIMER_MODE_INT_TI_TP)
    IN  CASE k = 1 -> i2c_reg_write_byte_dt(b, fp, PCF85063A_TIMER_VALUE, 0)
          [] k = 2 -> i2c_reg_update_byte_dt(b, fp, PCF85063A_TIMER_MODE, mask, 0)

\* transaction k of cancel_alarm, issued on bus state b
cancel_alarm_txn(k, b, fp) ==
    LET mask == BitOr(BitOr(PCF85063A_TIMER_MODE_EN, PCF85063A_TIMER_MODE_INT_EN),
                      PCF85063A_TIMER_MODE_INT_TI_TP)
    IN  CASE k = 1 -> i2c_reg_update_byte_dt(b, fp, PCF85063A_CTRL2, PCF85063A_CTRL2_TF, 0)
          [] k = 2 -> i2c_reg_update_byte_dt(b, fp, PCF85063A_TIMER_MODE, mask, 0)

pcf85063a_cancel_alarm(b, fp) ==
    LET b1 == cancel_alarm_txn(1, b, fp)
        b2 == cancel_alarm_txn(2, b1, fp)
    IN  IF b1.ret # 0 THEN b1
        ELSE IF b2.ret # 0 THEN b2
        ELSE [b2 EXCEPT !.ret = 0]

\* get_pending_int that acknowledges the flag it has read
pcf85063a_get_pending_int_clear(b, fp) ==
    LET b1 == i2c_reg_read_byte_dt(b, fp, PCF85063A_CTRL2)
        reg == b1.regs[PCF85063A_CTRL2]
        b2 == i2c_reg_update_byte_dt(b1, fp, PCF85063A_CTRL2, PCF85063A_CTRL2_TF, 0)
    IN  IF b1.ret # 0
        THEN [b1 EXCEPT !.ret = U32(b1.ret)]
        ELSE [b2 EXCEPT !.ret = IF BitAnd(reg, PCF85063A_CTRL2_TF) # 0
                                THEN U32(1) ELSE U32(0)]

\* returns uint32_t: the int status of a failed read is converted to it
pcf85063a_get_pending_int(b, fp) ==
    LET b1 == i2c_reg_read_byte_dt(b, fp, PCF85063A_CTRL2)
        reg == b1.regs[PCF85063A_CTRL2]
    IN  IF b1.ret # 0
        THEN [b1 EXCEPT !.ret = U32(b1.ret)]
        ELSE [b1 EXCEPT !.ret = IF BitAnd(reg, PCF85063A_CTRL2_TF) # 0
                                THEN U32(1) ELSE U32(0)]

\* ready: device_is_ready(data->i2c.bus)
\* init that reads control-1 a second time when the first read fails
pcf85063a_init_retry(b, fp, ready) ==
    IF ~ready
    THEN [b EXCEPT !.ret = -EINVAL]
    ELSE LET b1 == i2c_reg_read_byte_dt(b, fp, PCF85063A_CTRL1)
             b2 == IF b1.ret # 0 THEN i2c_reg_read_byte_dt(b1, fp, PCF85063A_CTRL1) ELSE b1
         IN  IF b2.ret # 0 THEN [b2 EXCEPT !.ret = -EIO] ELSE [b2 EXCEPT !.ret = 0]

pcf85063a_init(b, fp, ready) ==
    IF ~ready
    THEN [b EXCEPT !.ret = -EINVAL]
    ELSE LET b1 == i2c_reg_read_byte_dt(b, fp, PCF85063A_CTRL1)
         IN  IF b1.ret # 0 THEN [b1 EXCEPT !.ret = -EIO] ELSE [b1 EXCEPT !.ret = 0]

(***************************************************************************)
(* Inputs and initial register files.                                      *)
(***************************************************************************)
\* statuses a failing bus transaction returns (-EIO, -EBUSY)
BusErrors == {-5, -16}

NoFailure == [at |-> 0, err |-> 0]

\* the failure plans of a call that issues at most n transactions
FailPlans(n) == {NoFailure} \cup [at : 1..n, err : BusErrors]

\* the chip's registers after power-on reset (oscillator-stop flag set)
PowerOnRegs ==
    [a \in RegAddrs |->
        CASE a = PCF85063A_SECONDS     -> 128
          [] a = PCF85063A_SECONDS + 3 -> 1
          [] a = PCF85063A_SECONDS + 4 -> 6
          [] a = PCF85063A_SECONDS + 5 -> 1
          [] a = PCF85063A_TIMER_MODE  -> 24
          [] OTHER -> 0]

\* a chip some earlier software configured: bits the driver never names are
\* set in control-1 (EXT_TEST, CIE, 12_24), control-2 (AIE, AF, COF) and
\* timer-mode (bits 7:5); the clock is stopped, the timer armed at 4 kHz with
\* its flag raised
ConfiguredRegs ==
    [a \in RegAddrs |->
        CASE a = PCF85063A_CTRL1       -> 166
          [] a = PCF85063A_CTRL2       -> 207
          [] a = PCF85063A_OFFSET      -> 133
          [] a = PCF85063A_SECONDS     -> 89
          [] a = PCF85063A_SECONDS + 1 -> 89
          [] a = PCF85063A_SECONDS + 2 -> 35
          [] a = PCF85063A_SECONDS + 3 -> 40
          [] a = PCF85063A_SECONDS + 4 -> 1
          [] a = PCF85063A_SECONDS + 5 -> 1
          [] a = PCF85063A_SECONDS + 6 -> 0
          [] a = PCF85063A_TIMER_VALUE -> 9
          [] a = PCF85063A_TIMER_MODE  -> 231]

\* the configured register file with the timer and its interrupt disabled
DisarmedRegs == [ConfiguredRegs EXCEPT ![PCF85063A_TIMER_MODE] = 225]

\* the configured register file with the timer running and its flag clear
ArmedRegs == [ConfiguredRegs EXCEPT ![PCF85063A_CTRL2] = 199]

InitRegs == {PowerOnRegs, ConfiguredRegs}

TimeAddrs == PCF85063A_SECONDS .. (PCF85063A_SECONDS + RAW_TIME_LEN - 1)

\* r with the 7 bytes of img at 0x04..0x0A
WithImage(r, img) ==
    [a \in RegAddrs |-> IF a \in TimeAddrs THEN img[a - PCF85063A_SECONDS + 1] ELSE r[a]]

\* the 7 bytes r holds at 0x04..0x0A
ImageOf(r) == [i \in 1..RAW_TIME_LEN |-> r[PCF85063A_SECONDS + i - 1]]

TmSet(S, Mi, H, D, Mo, Y, W, Yd, Dst) ==
    [tm_sec : S, tm_min : Mi, tm_hour : H, tm_mday : D, tm_mon : Mo,
     tm_year : Y, tm_wday : W, tm_yday : Yd, tm_isdst : Dst]

\* the valid range of each field of a struct tm in the register era
SecRange == 0..59
MinRange == 0..59
HourRange == 0..23
MdayRange == 1..31
MonRange == 0..11
YearRange == 100..199
WdayRange == 0..6

\* the two ends of each range
SecEnds == {0, 59}
MinEnds == {0, 59}
HourEnds == {0, 23}
MdayEnds == {1, 31}
MonEnds == {0, 11}
YearEnds == {100, 199}
WdayEnds == {0, 6}

\* The valid struct tm values set_time is called with: every combination of
\* the ends of the ranges, and every value of each field with the other
\* fields at the low ends or at the high ends.  tm_yday and tm_isdst are
\* fields set_time never reads.
ValidTimes ==
    TmSet(SecEnds, MinEnds, HourEnds, MdayEnds, MonEnds, YearEnds, WdayEnds, {0}, {0, 1})
    \cup TmSet(SecRange, {0}, {0}, {1}, {0}, {100}, {0}, {0}, {0})
    \cup TmSet(SecRange, {59}, {23}, {31}, {11}, {199}, {6}, {0}, {0})
    \cup TmSet({0}, MinRange, {0}, {1}, {0}, {100}, {0}, {0}, {0})
    \cup TmSet({59}, MinRange, {23}, {31}, {11}, {199}, {6}, {0}, {0})
    \cup TmSet({0}, {0}, HourRange, {1}, {0}, {100}, {0}, {0}, {0})
    \cup TmSet({59}, {59}, HourRange, {31}, {11}, {199}, {6}, {0}, {0})
    \cup TmSet({0}, {0}, {0}, MdayRange, MonRange, {100, 101}, {0}, {0}, {0})
    \cup TmSet({59}, {59}, {23}, MdayRange, {11}, {199}, {6}, {0}, {0})
    \cup TmSet({0}, {0}, {0}, {1}, {0}, YearRange, {0}, {0}, {0})
    \cup TmSet({59}, {59}, {23}, {31}, {11}, YearRange, {6}, {0}, {0})
    \cup TmSet({0}, {0}, {0}, {1}, {0}, {100}, WdayRange, {0}, {0})
    \cup TmSet({59}, {59}, {23}, {31}, {11}, {199}, WdayRange, {0}, {0})

\* calendar years get_yday is applied to directly
YdayYears == {1900, 2000, 2001, 2004, 2100, 2400}

\* struct tm values whose month, day and year get_yday is applied to
YdayTimes ==
    TmSet({0}, {0}, {0}, MdayRange, MonRange, {y - 1900 : y \in YdayYears}, {0}, {0}, {0})

\* field values outside every range above
OutOfRange == {-1, 60, 99, 100, 165, 255, 1000}

\* struct tm values with fields out of range that set_time may be handed:
\* each field out of range in an otherwise valid time, and all fields at once
OutOfRangeTimes ==
    TmSet(OutOfRange, {59}, {23}, {31}, {11}, {199}, {6}, {0}, {0})
    \cup TmSet({0}, OutOfRange, {0}, {1}, {0}, {100}, {0}, {0}, {0})
    \cup TmSet({0}, {0}, OutOfRange, {1}, {0}, {100}, {0}, {0}, {0})
    \cup TmSet({0}, {0}, {0}, OutOfRange, {0}, {100}, {0}, {0}, {0})
    \cup TmSet({0}, {0}, {0}, {1}, OutOfRange, {100}, {0}, {0}, {0})
    \cup TmSet({0}, {0}, {0}, {1}, {0}, {-1, 0, 70, 200, 1000}, {0}, {0}, {0})
    \cup TmSet({0}, {0}, {0}, {1}, {0}, {100}, OutOfRange \cup {7, 8}, {0}, {0})
    \cup {[f \in TmFields |-> v] : v \in OutOfRange}

\* a struct tm the caller of get_time holds when it has set none
CallerTms == {NoTm, [NoTm EXCEPT !.tm_sec = 7, !.tm_year = 70, !.tm_yday = 3]}

\* values an out-of-bounds read of days[][] may produce
OobReads == {-1, 0, 999}

Byte == 0..255

ImgSet(B1, B2, B3, B4, B5, B6, B7) ==
    {<<b1, b2, b3, b4, b5, b6, b7>> :
        b1 \in B1, b2 \in B2, b3 \in B3, b4 \in B4, b5 \in B5, b6 \in B6, b7 \in B7}

\* Register images the chip may hold at 0x04..0x0A: every seconds byte with
\* the other bytes plain BCD values or all ones, and every value of each
\* other byte in an otherwise plain image.
ChipImages ==
    ImgSet(Byte, {18}, {18}, {18}, {5}, {2}, {1})
    \cup ImgSet(Byte, {255}, {255}, {255}, {255}, {255}, {255})
    \cup ImgSet({18, 128}, {18, 255}, {18, 255}, {18, 255}, {5, 255}, {2, 255}, {1, 255})
    \cup ImgSet({18}, Byte, {18}, {18}, {5}, {2}, {1})
    \cup ImgSet({18}, {18}, Byte, {18}, {5}, {2}, {1})
    \cup ImgSet({18}, {18}, {18}, Byte, {5}, {2}, {0, 1})
    \cup ImgSet({18}, {18}, {18}, {18}, Byte, {2}, {1})
    \cup ImgSet({18}, {18}, {18}, {1}, {5}, Byte, {0, 1})
    \cup ImgSet({18}, {18}, {18}, {1}, {5}, {2}, Byte)

\* the struct tm the caller holds in the register controller's runs
FewTimes == TmSet({59}, {0}, {23}, {1}, {2}, {100}, {6}, {0}, {0})

\* the arguments of the calls of the register controller's runs
TickInputs == {0, 200, 255, 256, 456, 512, 65736, 2147483647}
OffsetModeInputs == {PCF85063A_OFFSET_MODE_NORMAL, PCF85063A_OFFSET_MODE_COURSE,
                     PCF85063A_OFFSET_MODE}
OffsetValueInputs == {0, 127, 128, 133, 255}
CapInputs == {0, 1, 33, 254}

(***************************************************************************)
(* Actions: one per driver function.  A call is made when the caller has   *)
(* taken up the results of the one before (op = "none").                   *)
(***************************************************************************)
Idle == op = "none"

\* the callers of the alarm functions
Callers == {1, 2}

\* a caller that is in no alarm call
NotCalling == [fn |-> "none", arg |-> 0, log |-> <<>>, ret |-> 0, pc |-> "idle"]

\* the countdown behind the timer flag of register file r: none when the
\* flag is clear, else src
FlagSource(r, src) ==
    IF BitAnd(r[PCF85063A_CTRL2], PCF85063A_CTRL2_TF) = 0 THEN "none" ELSE src

\* the call `name` with integer argument a returns with bus state b, the
\* caller's struct tm t and the last time set ls
Returned(name, a, b, t, ls) ==
    /\ Idle
    /\ regs' = b.regs
    /\ tm' = t
    /\ lastSet' = ls
    /\ op' = name
    /\ arg' = a
    /\ ret' = b.ret
    /\ log' = b.log
    /\ pre' = regs
    /\ tmPre' = tm
    /\ tfSrc' = FlagSource(b.regs, tfSrc)
    /\ UNCHANGED run

SetOffsetMode ==
    \E v \in OffsetModeInputs, fp \in FailPlans(1) :
        Returned("set_offset_mode", v, pcf85063a_set_offset_mode(Bus(regs), fp, v),
                 tm, lastSet)

SetOffsetValue ==
    \E v \in OffsetValueInputs, fp \in FailPlans(1) :
        Returned("set_offset_value", v, pcf85063a_set_offset_value(Bus(regs), fp, v),
                 tm, lastSet)

SetCapSel ==
    \E v \in CapInputs, fp \in FailPlans(1) :
        Returned("set_cap_sel", v, pcf85063a_set_cap_sel(Bus(regs), fp, v),
                 tm, lastSet)

SetTime ==
    \E fp \in FailPlans(1) :
        LET b == pcf85063a_set_time(Bus(regs), fp, tm)
        IN  Returned("set_time", 0, b, tm, IF b.ret = 0 THEN tm ELSE lastSet)

GetTime ==
    \E fp \in FailPlans(1), oob \in OobReads :
        LET r == pcf85063a_get_time(Bus(regs), fp, tm, oob)
        IN  Returned("get_time", 0, r.bus, r.time, lastSet)

Start ==
    \E fp \in FailPlans(1) :
        Returned("start", 0, pcf85063a_start(Bus(regs), fp), tm, lastSet)

Stop ==
    \E fp \in FailPlans(1) :
        Returned("stop", 0, pcf85063a_stop(Bus(regs), fp), tm, lastSet)

SetAlarm ==
    \E ticks \in TickInputs, fp \in FailPlans(3) :
        Returned("set_alarm", ticks, pcf85063a_set_alarm(Bus(regs), fp, ticks),
                 tm, lastSet)

CancelAlarm ==
    \E fp \in FailPlans(2) :
        Returned("cancel_alarm", 0, pcf85063a_cancel_alarm(Bus(regs), fp), tm, lastSet)

GetPendingInt ==
    \E fp \in FailPlans(1) :
        Returned("get_pending_int", 0, pcf85063a_get_pending_int(Bus(regs), fp),
                 tm, lastSet)

DriverInit ==
    \E ready \in BOOLEAN, fp \in FailPlans(1) :
        Returned("init", IF ready THEN 1 ELSE 0, pcf85063a_init(Bus(regs), fp, ready),
                 tm, lastSet)

\* get_yday applied to the month, day and calendar year of the caller's
\* struct tm; the result is ret
YdayCall ==
    /\ Idle
    /\ op' = "get_yday"
    /\ ret' = get_yday(tm.tm_mon, tm.tm_mday, tm.tm_year + 1900, 0)
    /\ arg' = 0
    /\ log' = <<>>
    /\ pre' = regs
    /\ tmPre' = tm
    /\ UNCHANGED <<regs, tm, lastSet, run, tfSrc>>

\* The caller takes up the results of the call that returned: the return
\* value and the record of the call are gone, the registers and the
\* caller's struct tm stay.
TakeUp ==
    /\ ~Idle
    /\ op' = "none"
    /\ arg' = 0
    /\ ret' = 0
    /\ log' = <<>>
    /\ pre' = regs
    /\ tmPre' = tm
    /\ UNCHANGED <<regs, tm, lastSet, run, tfSrc>>

(***************************************************************************)
(* The alarm functions taken one bus transaction at a time.  Between two   *)
(* transactions of a call another caller's transaction may reach the chip, *)
(* and the chip's timer may expire.                                        *)
(***************************************************************************)
\* the call's variables that a transaction-level step leaves alone
CallFrame == <<tm, lastSet, op, arg, ret, pre, tmPre>>

\* caller c enters fn(a); a flag raised by the countdown of an earlier
\* set_alarm is from now on an old one
Invoke(c, fn, a) ==
    /\ run[c].pc = "idle"
    /\ run' = [run EXCEPT ![c] = [fn |-> fn, arg |-> a, log |-> <<>>, ret |-> 0,
                                  pc |-> "running"]]
    /\ tfSrc' = IF tfSrc = "new" THEN "old" ELSE tfSrc
    /\ UNCHANGED <<regs, log>>
    /\ UNCHANGED CallFrame

\* caller c's call issues its next transaction under failure plan fp, and
\* returns when the transaction fails or was the function's last.  With
\* traced, the transaction is appended to the bus-wide log.
StepTxn(c, fp, traced) ==
    /\ run[c].pc = "running"
    /\ LET k == Len(run[c].log) + 1
           b == [regs |-> regs, log |-> run[c].log, ret |-> 0]
           b1 == IF run[c].fn = "set_alarm"
                 THEN set_alarm_txn(k, b, fp, run[c].arg)
                 ELSE cancel_alarm_txn(k, b, fp)
           n == IF run[c].fn = "set_alarm" THEN set_alarm_len ELSE cancel_alarm_len
       IN  /\ regs' = b1.regs
           /\ run' = [run EXCEPT ![c].log = b1.log,
                                 ![c].ret = b1.ret,
                                 ![c].pc = IF b1.ret # 0 \/ k = n
                                           THEN "returned" ELSE "running"]
           /\ tfSrc' = FlagSource(b1.regs, tfSrc)
           /\ log' = IF traced THEN Append(log, b1.log[k]) ELSE log
    /\ UNCHANGED CallFrame

\* caller c takes up the result of its call
Resume(c) ==
    /\ run[c].pc = "returned"
    /\ run' = [run EXCEPT ![c] = NotCalling]
    /\ UNCHANGED <<regs, log, tfSrc>>
    /\ UNCHANGED CallFrame

\* a set_alarm in progress or just returned has written its timer value
ValueWritten ==
    \E c \in Callers :
        /\ run[c].fn = "set_alarm"
        /\ Len(run[c].log) >= 2
        /\ run[c].log[2].status = 0

\* The countdown reaches zero while the timer is enabled: the chip sets the
\* sticky timer flag.  The countdown is the one of the set_alarm at hand once
\* that call has written its timer value.
TimerExpire ==
    /\ BitAnd(regs[PCF85063A_TIMER_MODE], PCF85063A_TIMER_MODE_EN) # 0
    /\ BitAnd(regs[PCF85063A_CTRL2], PCF85063A_CTRL2_TF) = 0
    /\ regs' = [regs EXCEPT ![PCF85063A_CTRL2] = BitOr(@, PCF85063A_CTRL2_TF)]
    /\ tfSrc' = IF ValueWritten THEN "new" ELSE "old"
    /\ UNCHANGED <<run, log>>
    /\ UNCHANGED CallFrame

\* tick counts of the transaction-level runs
FewTicks == {0, 200, 456}

TimerSetAlarm == \E t \in FewTicks : Invoke(1, "set_alarm", t)

TimerCancelAlarm == Invoke(1, "cancel_alarm", 0)

TimerTransaction == \E fp \in FailPlans(set_alarm_len) : StepTxn(1, fp, FALSE)

TimerResume == Resume(1)

\* first of two unserialized callers: set_alarm(a)
RaceSetAlarm == \E a \in FewTicks : Invoke(1, "set_alarm", a)

\* second caller: cancel_alarm, or set_alarm(b)
RaceCancelAlarm == Invoke(2, "cancel_alarm", 0)

RaceSetAlarmToo == \E b \in FewTicks : Invoke(2, "set_alarm", b)

RaceTransaction == \E c \in Callers : StepTxn(c, NoFailure, TRUE)

(***************************************************************************)
(* Specifications.                                                         *)
(***************************************************************************)
NoCall ==
    /\ op = "none"
    /\ arg = 0
    /\ ret = 0
    /\ log = <<>>
    /\ pre = regs
    /\ tmPre = tm
    /\ lastSet = NoTm
    /\ run = [c \in Callers |-> NotCalling]
    /\ tfSrc = FlagSource(regs, "old")

\* The register controller: every driver function, on either register file.
Init ==
    /\ regs \in InitRegs
    /\ tm \in FewTimes
    /\ NoCall

Next ==
    \/ DriverInit
    \/ SetOffsetMode
    \/ SetOffsetValue
    \/ SetCapSel
    \/ SetTime
    \/ GetTime
    \/ Start
    \/ Stop
    \/ SetAlarm
    \/ CancelAlarm
    \/ GetPendingInt
    \/ TakeUp

Spec == Init /\ [][Next]_vars

\* The register controller on a chip whose timer is disabled when the driver
\* attaches.
InitDisarmed ==
    /\ regs \in {PowerOnRegs, DisarmedRegs}
    /\ tm \in FewTimes
    /\ NoCall

SpecDisarmed == InitDisarmed /\ [][Next]_vars

\* One caller of set_alarm and cancel_alarm, transaction by transaction, on a
\* chip whose timer may expire between transactions; the timer is disabled,
\* running or expired when the driver attaches.
InitTimer ==
    /\ regs \in InitRegs \cup {DisarmedRegs, ArmedRegs}
    /\ tm \in FewTimes
    /\ NoCall

NextTimer ==
    \/ TimerSetAlarm
    \/ TimerCancelAlarm
    \/ TimerTransaction
    \/ TimerExpire
    \/ TimerResume

SpecTimer == InitTimer /\ [][NextTimer]_vars

\* Two callers with no lock between them, each making one call; every
\* transaction succeeds and the timer does not expire.
InitRace ==
    /\ regs \in InitRegs \cup {DisarmedRegs, ArmedRegs}
    /\ tm \in FewTimes
    /\ NoCall

NextRace ==
    \/ RaceSetAlarm
    \/ RaceCancelAlarm
    \/ RaceSetAlarmToo
    \/ RaceTransaction

SpecRace == InitRace /\ [][NextRace]_vars

\* The calendar codec: set_time and get_time over the whole input ranges,
\* on a chip whose time registers hold any image when the driver attaches.
InitTime ==
    /\ \/ /\ regs \in {WithImage(PowerOnRegs, img) : img \in ChipImages}
          /\ tm \in CallerTms
       \/ /\ regs = PowerOnRegs
          /\ tm \in ValidTimes \cup YdayTimes \cup OutOfRangeTimes
    /\ NoCall

NextTime ==
    \/ SetTime
    \/ GetTime
    \/ YdayCall
    \/ TakeUp

SpecTime == InitTime /\ [][NextTime]_vars

(***************************************************************************)
(* Properties.                                                             *)
(***************************************************************************)
\* the fields of a struct tm the chip stores
StoredFields == {"tm_sec", "tm_min", "tm_hour", "tm_mday", "tm_wday", "tm_mon", "tm_year"}

\* a calendar time of the register era, every field in its range
IsValidTime(t) ==
    /\ t.tm_sec \in 0..59
    /\ t.tm_min \in 0..59
    /\ t.tm_hour \in 0..23
    /\ t.tm_mday \in 1..31
    /\ t.tm_wday \in 0..6
    /\ t.tm_mon \in 0..11
    /\ t.tm_year \in 100..199

\* the leap-year rule and the cumulative-days tables as the specification
\* states them
IsLeapYear(y) == (y % 4 = 0 /\ y % 100 # 0) \/ y % 400 = 0

CumulativeDays(leap) ==
    IF leap THEN <<0, 31, 60, 91, 121, 152, 182, 213, 244, 274, 305, 335>>
    ELSE <<0, 31, 59, 90, 120, 151, 181, 212, 243, 273, 304, 334>>

TableYday(m, d, y) == CumulativeDays(IsLeapYear(y))[m + 1] + d - 1

\* the bus transaction of a one-transaction call went through
BusOk == Len(log) >= 1 /\ \A j \in 1..Len(log) : log[j].status = 0

\* C1: set_time(t) with t a valid calendar time of 2000-2099, followed by
\* get_time on a bus that stores the bytes written and returns them,
\* succeeds and yields the second, minute, hour, day of month, weekday, month
\* and year of t, the table-derived day of year, and dst flag 0.
C1_RoundTrip ==
    (op = "get_time" /\ BusOk /\ lastSet # NoTm /\ IsValidTime(lastSet)) =>
        /\ ret = 0
        /\ \A f \in StoredFields : tm[f] = lastSet[f]
        /\ tm.tm_yday = TableYday(lastSet.tm_mon, lastSet.tm_mday, lastSet.tm_year + 1900)
        /\ tm.tm_isdst = 0

C1_Witness ==
    /\ op = "get_time"
    /\ ret = 0
    /\ lastSet # NoTm
    /\ lastSet.tm_sec = 59 /\ lastSet.tm_min = 59 /\ lastSet.tm_hour = 23
    /\ lastSet.tm_mday = 31 /\ lastSet.tm_mon = 11 /\ lastSet.tm_year = 199
    /\ lastSet.tm_wday = 6 /\ lastSet.tm_isdst = 1
    /\ tmPre = lastSet
    /\ tm.tm_yday = 364
    /\ tm.tm_isdst = 0

\* C2: when the seconds byte read has bit 7 (oscillator stop) set, get_time
\* returns -EIO and writes no field of the caller's struct tm, whatever the
\* other six bytes hold; when the burst read fails, get_time returns the
\* transport's status and writes no field of the caller's struct tm.
C2_NoTimeOnIntegrityError ==
    /\ (op = "get_time" /\ BusOk /\ pre[4] >= 128) =>
            (ret = -5 /\ tm = tmPre)
    /\ (op = "get_time" /\ ~BusOk) =>
            (ret = log[1].status /\ ret # 0 /\ tm = tmPre)

C2_Witness ==
    /\ op = "get_time"
    /\ BusOk
    /\ pre[4] = 146
    /\ \A a \in 5..10 : pre[a] = 255
    /\ ret = -5
    /\ tm = tmPre
    /\ tm.tm_year = 70

\* C10: get_time derives day_of_year as C[leap(y)][m] + d - 1 from the
\* decoded month m in 0..11, day d and calendar year y = tm_year + 1900, with
\* C the 0-based cumulative-days tables and leap(y) iff y is divisible by 4
\* and not by 100, or by 400; get_yday gives 60 for March 1 of 2000, 2004
\* and 2400 and 59 for March 1 of 2001 and 2100.
C10_DayOfYear ==
    /\ (op = "get_time" /\ ret = 0 /\ tm.tm_mon \in 0..11) =>
            tm.tm_yday = TableYday(tm.tm_mon, tm.tm_mday, tm.tm_year + 1900)
    /\ (op = "get_yday" /\ tm.tm_mon \in 0..11) =>
            ret = TableYday(tm.tm_mon, tm.tm_mday, tm.tm_year + 1900)
    /\ (op = "get_yday" /\ tm.tm_mon = 2 /\ tm.tm_mday = 1) =>
            /\ tm.tm_year + 1900 \in {2000, 2004, 2400} => ret = 60
            /\ tm.tm_year + 1900 \in {2001, 2100} => ret = 59

C10_Witness ==
    /\ op = "get_time"
    /\ ret = 0
    /\ tm.tm_year + 1900 = 2100
    /\ tm.tm_mon = 2
    /\ tm.tm_mday = 1
    /\ tm.tm_yday = 59

\* bit n of byte v is set
BitSet(v, n) == (v \div (2 ^ n)) % 2 = 1

\* bytes v and w agree on every bit but those of `bits`
SameBut(v, w, bits) == \A n \in (0..7) \ bits : BitSet(v, n) = BitSet(w, n)

\* no register but those of `addrs` differs from its value at entry
OnlyChanged(addrs) == \A a \in RegAddrs \ addrs : regs[a] = pre[a]

\* C3: a successful set_alarm(ticks), ticks in 0..255, issues exactly three
\* transactions in this order: masked write to control-2 (0x01), mask bit 3,
\* value 0; plain write of ticks to timer-value (0x10); masked write to
\* timer-mode (0x11), mask bits 4..1, value 1 Hz (10 in bits 4:3) with bits
\* 2 and 1 set.  Bit 0 of timer-mode and every bit of control-2 but bit 3
\* are left as they were.
C3_SetAlarmSequence ==
    (op = "set_alarm" /\ ret = 0 /\ arg \in 0..255) =>
        /\ log = << [kind |-> "update", reg |-> 1, mask |-> 8, val |-> 0, status |-> 0],
                    [kind |-> "write", reg |-> 16, mask |-> 255, val |-> arg, status |-> 0],
                    [kind |-> "update", reg |-> 17, mask |-> 30, val |-> 22, status |-> 0] >>
        /\ ~BitSet(regs[1], 3) /\ SameBut(regs[1], pre[1], {3})
        /\ regs[16] = arg
        /\ BitSet(regs[17], 4) /\ ~BitSet(regs[17], 3)
        /\ BitSet(regs[17], 2) /\ BitSet(regs[17], 1)
        /\ SameBut(regs[17], pre[17], {1, 2, 3, 4})
        /\ OnlyChanged({1, 16, 17})

C3_Witness ==
    /\ op = "set_alarm"
    /\ ret = 0
    /\ arg = 200
    /\ pre[1] = 207 /\ regs[1] = 199
    /\ regs[16] = 200
    /\ pre[17] = 231 /\ regs[17] = 247

\* C4: each start and each stop issues exactly one masked write to control-1
\* (0x00) with mask bit 5 only, value 0 for start and bit 5 for stop; after
\* a successful call bit 5 is clear (start) or set (stop) and every other bit
\* of control-1, and every other register, is as it was; start on a running
\* clock leaves control-1 unchanged.
C4_StartStopMask ==
    (op \in {"start", "stop"}) =>
        /\ Len(log) = 1
        /\ log[1].kind = "update" /\ log[1].reg = 0 /\ log[1].mask = 32
        /\ log[1].val = (IF op = "stop" THEN 32 ELSE 0)
        /\ OnlyChanged({0})
        /\ SameBut(regs[0], pre[0], {5})
        /\ ret = 0 => (BitSet(regs[0], 5) <=> op = "stop")
        /\ (op = "start" /\ ~BitSet(pre[0], 5)) => regs[0] = pre[0]

C4_Witness ==
    /\ op = "start"
    /\ ret = 0
    /\ pre[0] = 167
    /\ regs[0] = 135

\* the registers after the first n steps of set_alarm (flag clear, tick
\* write, mode write) or of cancel_alarm (flag clear, mode clear) from r
AfterSteps(name, n, r, ticks) ==
    LET r1 == IF n >= 1 THEN [r EXCEPT ![1] = IF BitSet(@, 3) THEN @ - 8 ELSE @] ELSE r
    IN  IF name = "set_alarm" /\ n >= 2 THEN [r1 EXCEPT ![16] = ticks % 256] ELSE r1

\* C5: when step k of set_alarm (k in 1..3) or of cancel_alarm (k in 1..2)
\* fails, the call returns that step's status, issues no step after k, and
\* the registers keep what steps 1..k-1 wrote.
C5_StopAtFirstFailure ==
    (op \in {"set_alarm", "cancel_alarm"} /\ \E j \in 1..Len(log) : log[j].status # 0) =>
        LET k == CHOOSE j \in 1..Len(log) :
                    log[j].status # 0 /\ \A i \in 1..(j - 1) : log[i].status = 0
        IN  /\ Len(log) = k
            /\ ret = log[k].status
            /\ [j \in 1..k |-> log[j].reg] =
                   SubSeq(IF op = "set_alarm" THEN <<1, 16, 17>> ELSE <<1, 17>>, 1, k)
            /\ regs = AfterSteps(op, k - 1, pre, arg)

C5_Witness ==
    /\ op = "set_alarm"
    /\ Len(log) = 3
    /\ log[3].status = -16
    /\ ret = -16
    /\ pre[1] = 207 /\ regs[1] = 199
    /\ pre[16] = 9 /\ regs[16] = 200
    /\ regs[17] = pre[17]

\* C6: a successful cancel_alarm clears the timer flag (bit 3 of control-2)
\* and then clears bits 2, 1, 0 of timer-mode in one masked write, leaving
\* the frequency bits and timer-value as they were; when the flag and those
\* three bits were already clear no register changes; and a second
\* cancel_alarm leaves the registers of the first.
C6_CancelIdempotent ==
    (op = "cancel_alarm" /\ ret = 0) =>
        /\ log = << [kind |-> "update", reg |-> 1, mask |-> 8, val |-> 0, status |-> 0],
                    [kind |-> "update", reg |-> 17, mask |-> 7, val |-> 0, status |-> 0] >>
        /\ ~BitSet(regs[1], 3) /\ SameBut(regs[1], pre[1], {3})
        /\ \A n \in {0, 1, 2} : ~BitSet(regs[17], n)
        /\ SameBut(regs[17], pre[17], {0, 1, 2})
        /\ OnlyChanged({1, 17})
        /\ (~BitSet(pre[1], 3) /\ \A n \in {0, 1, 2} : ~BitSet(pre[17], n)) => regs = pre
        /\ pcf85063a_cancel_alarm(Bus(regs), NoFailure).regs = regs

C6_Witness ==
    /\ op = "cancel_alarm"
    /\ ret = 0
    /\ pre[1] = 0
    /\ pre[17] = 24
    /\ regs = pre

\* the uint32_t values 1 and 0
One32 == [hi |-> 0, lo |-> 1]

Zero32 == [hi |-> 0, lo |-> 0]

\* C7: get_pending_int performs one read of control-2 and no write, returns
\* 1 when bit 3 of the value read is set and 0 otherwise, and leaves every
\* register as it was, so the next call returns the same answer.
C7_PendingReadOnly ==
    (op = "get_pending_int") =>
        /\ Len(log) = 1
        /\ log[1].kind = "read" /\ log[1].reg = 1
        /\ regs = pre
        /\ BusOk =>
            /\ ret = (IF BitSet(pre[1], 3) THEN One32 ELSE Zero32)
            /\ pcf85063a_get_pending_int(Bus(regs), NoFailure).ret = ret

C7_Witness ==
    /\ op = "get_pending_int"
    /\ BusOk
    /\ pre[1] = 207
    /\ ret = One32

\* C8: when the read of control-2 fails, get_pending_int does not report
\* "interrupt pending": the value it returns is not non-zero.
C8_FailedReadNotPending ==
    (op = "get_pending_int" /\ ~BusOk) => ~(ret # Zero32)

\* C9: after a successful set_offset_mode with PCF85063A_OFFSET_MODE_COURSE
\* (1) bit 7 of the offset register (0x02) is set, after one with
\* PCF85063A_OFFSET_MODE_NORMAL (0) it is clear, and bits 6:0 are as they
\* were.
C9_OffsetModeSelects ==
    (op = "set_offset_mode" /\ ret = 0 /\ arg \in {0, 1}) =>
        /\ arg = 1 => BitSet(regs[2], 7)
        /\ arg = 0 => ~BitSet(regs[2], 7)
        /\ SameBut(regs[2], pre[2], {7})

\* the two-digit decimal value held in the low `width` bits of a byte
FieldBcd(byte, width) ==
    LET v == byte % Pow2(width)
    IN  (v \div 16) * 10 + (v % 16)

\* C11: a successful get_time decodes seconds and minutes from the low 7
\* bits of their bytes, hours and days from the low 6 bits, months from the
\* low 5 bits and the weekday as the raw low 3 bits, so that bits of a byte
\* outside its field never change the decoded value.
C11_FieldMasks ==
    (op = "get_time" /\ ret = 0) =>
        /\ tm.tm_sec = FieldBcd(pre[4], 7)
        /\ tm.tm_min = FieldBcd(pre[5], 7)
        /\ tm.tm_hour = FieldBcd(pre[6], 6)
        /\ tm.tm_mday = FieldBcd(pre[7], 6)
        /\ tm.tm_wday = pre[8] % 8
        /\ tm.tm_mon = FieldBcd(pre[9], 5)

\* C12: for every struct tm, out-of-range field values included, the bytes
\* set_time burst-writes have no bit outside their field: seconds and minutes
\* within 0x7F, hours and days within 0x3F, weekday within 0x07, months within
\* 0x1F.  The oscillator-stop bit is thus written as 0, and a get_time that
\* reads back the image of a successful set_time never returns -EIO for
\* clock integrity.
C12_EncodeWithinMasks ==
    /\ (op = "set_time" /\ ret = 0) =>
          /\ log = <<[kind |-> "burst_write", reg |-> 4, mask |-> 255, val |-> 7, status |-> 0]>>
          /\ regs[4] = regs[4] % 128
          /\ regs[5] = regs[5] % 128
          /\ regs[6] = regs[6] % 64
          /\ regs[7] = regs[7] % 64
          /\ regs[8] = regs[8] % 8
          /\ regs[9] = regs[9] % 32
    /\ (op = "get_time" /\ BusOk /\ lastSet # NoTm) => ret = 0

C12_Witness ==
    /\ op = "get_time"
    /\ ret = 0
    /\ lastSet = [f \in TmFields |-> 99]
    /\ pre[4] = 25 /\ pre[5] = 25 /\ pre[6] = 25 /\ pre[7] = 25
    /\ pre[8] = 3 /\ pre[9] = 25

\* C13: set_offset_value(v) issues exactly one masked write, of the offset
\* register with mask 0x7F, and when it succeeds leaves the register at
\* (old & 0x80) | (v & 0x7F); set_cap_sel(c) issues exactly one masked write,
\* of control-1 with mask 0x01, and when it succeeds leaves the register at
\* (old & ~0x01) | (c & 0x01).  No other register changes, and each returns
\* the status of its transaction unchanged.
C13_OffsetValueAndCapSel ==
    /\ op = "set_offset_value" =>
          /\ Len(log) = 1
          /\ log[1] = [kind |-> "update", reg |-> 2, mask |-> 127, val |-> arg,
                       status |-> ret]
          /\ ret = 0 => regs[2] = (pre[2] \div 128) * 128 + (arg % 128)
          /\ ret # 0 => regs[2] = pre[2]
          /\ OnlyChanged({2})
    /\ op = "set_cap_sel" =>
          /\ Len(log) = 1
          /\ log[1] = [kind |-> "update", reg |-> 0, mask |-> 1, val |-> arg,
                       status |-> ret]
          /\ ret = 0 => regs[0] = (pre[0] \div 2) * 2 + (arg % 2)
          /\ ret # 0 => regs[0] = pre[0]
          /\ OnlyChanged({0})

C13_Witness ==
    /\ op = "set_offset_value"
    /\ ret = 0
    /\ arg = 255
    /\ pre[2] = 0
    /\ regs[2] = 127

\* C14: init on a bus that is not ready returns an error and issues no
\* transaction; on a ready bus it issues exactly one read, of control-1,
\* returns an error when the read fails and 0 when it succeeds.  It never
\* reads again and never writes.
C14_InitReadOnly ==
    op = "init" =>
        /\ regs = pre
        /\ arg = 0 => (log = <<>> /\ ret < 0)
        /\ arg = 1 =>
              /\ Len(log) = 1
              /\ log[1].kind = "read" /\ log[1].reg = 0
              /\ log[1].status # 0 => ret < 0
              /\ log[1].status = 0 => ret = 0

C14_Witness ==
    /\ op = "init"
    /\ arg = 1
    /\ Len(log) = 1
    /\ log[1].status = -16
    /\ ret = -5

\* C18: for every image with the oscillator-stop bit clear, the months byte
\* 0x12 included, the month that a successful get_time decodes and passes to
\* get_yday as the index of the cumulative-days table lies in 0..11.
C18_MonthIndexInTable ==
    (op = "get_time" /\ ret = 0) => tm.tm_mon \in 0..11

\* C19: set_alarm with any tick count t writes t mod 256 to the timer-value
\* register, arms the timer and returns 0 when its transactions succeed: a
\* count above 255 is not refused, and a non-zero multiple of 256 writes 0.
C19_TicksNarrowed ==
    op = "set_alarm" =>
        /\ Len(log) >= 1
        /\ Len(log) >= 2 => log[2].val = arg % 256
        /\ BusOk =>
              /\ ret = 0
              /\ Len(log) = 3
              /\ regs[16] = arg % 256
              /\ BitSet(regs[17], 2) /\ BitSet(regs[17], 1)
              /\ BitSet(regs[17], 4) /\ ~BitSet(regs[17], 3)

C19_Witness ==
    /\ op = "set_alarm"
    /\ arg = 512
    /\ ret = 0
    /\ pre[16] = 9
    /\ regs[16] = 0
    /\ pre[17] = 231
    /\ regs[17] = 247

\* C17: starting with timer-enable and timer-interrupt-enable both clear,
\* after any sequence of driver calls, any transaction of which may fail,
\* the two bits are equal, and when they are set the timer-mode frequency
\* selector is 1 Hz (binary 10).
C17_NoHalfArmed ==
    /\ BitSet(regs[17], 2) = BitSet(regs[17], 1)
    /\ BitSet(regs[17], 2) => (BitSet(regs[17], 4) /\ ~BitSet(regs[17], 3))

\* a cancel_alarm that failed at its second transaction leaves the timer armed
C17_Witness ==
    /\ op = "cancel_alarm"
    /\ Len(log) = 2
    /\ ret # 0
    /\ BitSet(regs[17], 2) /\ BitSet(regs[17], 1)
    /\ BitSet(regs[17], 4) /\ ~BitSet(regs[17], 3)
    /\ BitSet(regs[17], 7)

\* caller 1's call of fn has returned 0
Succeeded(fn) == run[1].pc = "returned" /\ run[1].fn = fn /\ run[1].ret = 0

\* C15: with the chip able to set the timer flag between any two bus
\* transactions while timer-enable is set, a cancel_alarm that returned 0
\* leaves timer-enable, timer-interrupt-enable and the timer flag all clear.
C15_CancelLeavesNothingPending ==
    Succeeded("cancel_alarm") =>
        /\ ~BitSet(regs[17], 2)
        /\ ~BitSet(regs[17], 1)
        /\ ~BitSet(regs[1], 3)

\* C16: with the same chip, whatever state the timer was in at entry, when
\* set_alarm returns 0 the timer flag is set only if the countdown this call
\* programmed has expired: a flag raised by an earlier countdown is not left
\* pending.
C16_NoStaleFlag ==
    (Succeeded("set_alarm") /\ BitSet(regs[1], 3)) => tfSrc = "new"

\* the registers after caller c's call, run alone on register file r with
\* every transaction succeeding
AfterCall(c, r) ==
    IF run[c].fn = "set_alarm"
    THEN pcf85063a_set_alarm(Bus(r), NoFailure, run[c].arg).regs
    ELSE pcf85063a_cancel_alarm(Bus(r), NoFailure).regs

\* the timer flag, the timer value and timer-mode of r and q are the same
SameTimer(r, q) ==
    /\ BitSet(r[1], 3) = BitSet(q[1], 3)
    /\ r[16] = q[16]
    /\ r[17] = q[17]

BothReturned == \A c \in Callers : run[c].pc = "returned"

\* C20: two callers with no lock between them, every transaction atomic and
\* successful, no timer expiry: however the transactions of set_alarm(a)
\* interleave with those of cancel_alarm or of set_alarm(b), when both calls
\* have returned the timer flag, the timer value and timer-mode are what
\* running the two calls one after the other, in one of the two orders,
\* leaves.
C20_InterleavingsSerialize ==
    BothReturned =>
        \/ SameTimer(regs, AfterCall(2, AfterCall(1, pre)))
        \/ SameTimer(regs, AfterCall(1, AfterCall(2, pre)))

\* set_alarm(200) and cancel_alarm have alternated their transactions, and
\* set_alarm's write of timer-mode came last
C20_Witness ==
    /\ BothReturned
    /\ run[1].arg = 200
    /\ run[2].fn = "cancel_alarm"
    /\ Len(log) = 5
    /\ log[1].reg = 1 /\ log[2].reg = 1
    /\ log[3].reg = 16 /\ log[4].reg = 17 /\ log[5].reg = 17
    /\ log[5].val = 22
    /\ regs[16] = 200
    /\ BitSet(regs[17], 2)
    /\ pre[17] = 231
    /\ regs = AfterCall(1, AfterCall(2, pre))

====
